---- MODULE Spec2Model ----
(***************************************************************************)
(* A model of scripts/generate_langs.py: one run of the script, from the   *)
(* module-level configuration through the paginated repository query, the  *)
(* two aggregations, the top-N reduction, the pie geometry and the single  *)
(* write of languages-overview.svg.                                        *)
(*                                                                         *)
(* Numbers.  Python's ints and floats are modelled as exact rationals      *)
(* <<n, d>> in lowest terms with d > 0.  Angles are in degrees (the code   *)
(* works in radians; 2*pi radians = 360 degrees), so -pi/2 is <<-90, 1>>.  *)
(* A point cx + r*cos(a), cy + r*sin(a) is modelled by its polar form      *)
(* [cx, cy, r, a mod 360]: two points of one circle are equal exactly when *)
(* their angles agree modulo a full turn.                                  *)
(*                                                                         *)
(* Dicts are modelled as sequences of [k, v] records with unique keys, in  *)
(* insertion order (the order Python's dict keeps).  Strings that the code  *)
(* takes apart are sequences of characters.                                *)
(***************************************************************************)
EXTENDS Integers, Sequences, FiniteSets, TLC

VARIABLES
    env,          \* os.environ: the variables that are set, each with its value
    hashOrder,    \* this process's iteration order of a set of str
    pc,           \* position of the run
    exit_code,    \* the status the process ends with (0 unless an exception escapes)
    TOKEN,        \* module global, line 29 (<<>> until assigned)
    USERNAME,     \* module global, line 30 (<<>> until assigned)
    network_used, \* has any HTTP request been sent
    api_error,    \* has any response been an upstream error
    repos,        \* fetch_repositories: nodes accumulated so far
    cursor,       \* fetch_repositories: the "after" cursor (0 stands for None)
    repo_data,    \* languages_by_repo_count(repos)
    weighted,     \* commit_weighted_languages: dict built so far
    idx,          \* commit_weighted_languages: index of the next repo
    commits,      \* value fetch_commit_count returned for each repo (0: no call)
    repo_top,     \* render_combined_svg: top_n_with_other(repo_data)
    commit_top,   \* render_combined_svg: top_n_with_other(commit_data)
    repo_pie,     \* render_combined_svg: pie of the by-repositories data
    commit_pie,   \* render_combined_svg: pie of the by-activity data
    legend_items, \* render_combined_svg: dict label -> colour
    file          \* languages-overview.svg: the documents written to it, in order

vars == <<env, hashOrder, pc, exit_code, TOKEN, USERNAME, network_used,
          api_error, repos, cursor, repo_data, weighted, idx, commits,
          repo_top, commit_top, repo_pie, commit_pie, legend_items, file>>

-----------------------------------------------------------------------------
(* Bounds of the model *)

MaxRepos == 2     \* repositories the account owns
MaxPages == 2     \* pages the repository query is answered in

-----------------------------------------------------------------------------
(* Exact rational arithmetic *)

RECURSIVE GCD(_, _)
GCD(a, b) == IF b = 0 THEN a ELSE GCD(b, a % b)

Abs(n) == IF n < 0 THEN -n ELSE n

Rat(n, d) ==
    LET g == GCD(Abs(n), Abs(d))
        s == IF d < 0 THEN -1 ELSE 1
    IN  <<(s * n) \div g, (s * d) \div g>>

Num(n) == <<n, 1>>
Zero == Num(0)
RAdd(x, y) == Rat(x[1] * y[2] + y[1] * x[2], x[2] * y[2])
RMul(x, y) == Rat(x[1] * y[1], x[2] * y[2])
RDiv(x, y) == Rat(x[1] * y[2], x[2] * y[1])
RLess(x, y) == x[1] * y[2] < y[1] * x[2]

\* cos and sin have period 2*pi: the angle a point is at, within one turn
RMod360(x) == Rat(x[1] % (360 * x[2]), x[2])

\* Python 3 round(): to the nearest integer, halves to the even neighbour
Round(x) ==
    LET f == x[1] \div x[2]
        r == 2 * (x[1] % x[2])
    IN  IF r < x[2] THEN f
        ELSE IF r > x[2] THEN f + 1
        ELSE IF f % 2 = 0 THEN f ELSE f + 1

RECURSIVE RSum(_)
RSum(s) == IF s = <<>> THEN Zero ELSE RAdd(Head(s), RSum(Tail(s)))

-----------------------------------------------------------------------------
(* Configuration *)

TOP_N == 5
EXCLUDED_LANGUAGES == {}

COLORS == <<"#f97316", "#22c55e", "#38bdf8", "#a78bfa",
            "#f43f5e", "#eab308", "#14b8a6", "#fb7185">>

PageSize == 100

-----------------------------------------------------------------------------
(* The environment and the remote side *)

EnvNames == {"GITHUB_TOKEN", "GH_USERNAME", "GITHUB_REPOSITORY"}

\* The value each variable has when it is set: "tk", "al", "bo/pr"
EnvValue ==
    [GITHUB_TOKEN |-> <<"t", "k">>,
     GH_USERNAME |-> <<"a", "l">>,
     GITHUB_REPOSITORY |-> <<"b", "o", "/", "p", "r">>]

\* The environments a run may start in: any subset of the variables set
Environments == {[n \in S |-> EnvValue[n]] : S \in SUBSET EnvNames}

Langs == {"Go", "Py", "Rs", "C", "Js", "Hs", "Ml"}

\* Orders in which one process may iterate a set of these strings (str hashes
\* are salted per process, so the order differs from run to run)
HashOrders ==
    {<<"Go", "Py", "Rs", "C", "Js", "Hs", "Ml">>,
     <<"Ml", "Hs", "Js", "C", "Rs", "Py", "Go">>}

Edge(l, n) == [name |-> l, size |-> n]

\* Repositories the hosting side may hold: name, and language edges with the
\* byte size the host attributes to each (QUERY asks for the names only)
RemoteRepos ==
    {[name |-> "A", edges |-> <<Edge("Go", 100), Edge("Py", 50)>>],
     [name |-> "B", edges |-> <<Edge("Go", 50)>>],
     [name |-> "D", edges |-> <<Edge("Rs", 7), Edge("Rs", 7)>>],
     [name |-> "E", edges |-> <<>>],
     [name |-> "M", edges |-> <<Edge("Go", 1), Edge("Py", 2), Edge("Rs", 3),
                                Edge("C", 4), Edge("Js", 5), Edge("Hs", 6),
                                Edge("Ml", 7)>>]}

\* What QUERY selects of a repository: name, languages { edges { node { name } } }
Node(repo) ==
    [name |-> repo.name,
     languages |-> [i \in 1..Len(repo.edges) |-> repo.edges[i].name]]

Range(s) == {s[i] : i \in 1..Len(s)}

\* Sequences of distinct elements of S, of length at most n
RECURSIVE DistinctSeqs(_, _)
DistinctSeqs(S, n) ==
    IF n = 0 THEN {<<>>}
    ELSE LET shorter == DistinctSeqs(S, n - 1)
             longest == {t \in shorter : Len(t) = n - 1}
         IN  shorter \cup
             UNION {{Append(t, x) : x \in S \ Range(t)} : t \in longest}

-----------------------------------------------------------------------------
(* Dicts in insertion order *)

Keys(d) == {d[i].k : i \in 1..Len(d)}

IndexOf(d, key) == CHOOSE i \in 1..Len(d) : d[i].k = key

\* d.get(key, default)
Get(d, key, default) ==
    IF key \in Keys(d) THEN d[IndexOf(d, key)].v ELSE default

\* d[key] = value: an existing key keeps its place, a new key goes last
Put(d, key, value) ==
    IF key \in Keys(d)
    THEN [d EXCEPT ![IndexOf(d, key)].v = value]
    ELSE Append(d, [k |-> key, v |-> value])

Values(d) == [i \in 1..Len(d) |-> d[i].v]

\* Iteration over a set of str: the members, in this process's hash order
RECURSIVE SetIter(_, _)
SetIter(S, order) ==
    IF order = <<>> THEN <<>>
    ELSE IF Head(order) \in S
         THEN <<Head(order)>> \o SetIter(S, Tail(order))
         ELSE SetIter(S, Tail(order))

\* {e["node"]["name"] for e in r["languages"]["edges"]}
LangSet(r) == Range(r.languages)

\* Variant: the edges as listed, a repeated name kept
RepoLangsEdges(r, order) == r.languages

\* for lang in langs: the set of the repository's language names, iterated
RepoLangs(r, order) == SetIter(LangSet(r), order)

-----------------------------------------------------------------------------
(* Aggregation *)

\* the inner loop of languages_by_repo_count over one repository's languages
RECURSIVE CountLangs(_, _)
CountLangs(counts, langs) ==
    IF langs = <<>> THEN counts
    ELSE LET lang == Head(langs)
         IN  IF lang \in EXCLUDED_LANGUAGES
             THEN CountLangs(counts, Tail(langs))
             ELSE CountLangs(Put(counts, lang,
                                 RAdd(Get(counts, lang, Zero), Num(1))),
                             Tail(langs))

RECURSIVE CountRepos(_, _, _)
CountRepos(counts, rs, order) ==
    IF rs = <<>> THEN counts
    ELSE CountRepos(CountLangs(counts, RepoLangs(Head(rs), order)),
                    Tail(rs), order)

languages_by_repo_count(rs, order) == CountRepos(<<>>, rs, order)

\* Variant: the whole commit count to every language
WeightWhole(n, langs) == Num(n)

\* weight = commits / len(langs)
Weight(n, langs) == RDiv(Num(n), Num(Cardinality(langs)))

\* the inner loop of commit_weighted_languages over one repository's languages
RECURSIVE AddWeights(_, _, _)
AddWeights(w, langs, weight) ==
    IF langs = <<>> THEN w
    ELSE LET lang == Head(langs)
         IN  IF lang \in EXCLUDED_LANGUAGES
             THEN AddWeights(w, Tail(langs), weight)
             ELSE AddWeights(Put(w, lang, RAdd(Get(w, lang, Zero), weight)),
                             Tail(langs), weight)

\* The answers of GET /repos/{user}/{repo}/commits?per_page=1: the Link header
\* (absent, with a rel="last" part naming the last page, or without one) and
\* the length of the JSON body (a list of at most one commit, or the error
\* object {"message", "documentation_url"} of a non-success status)
CommitCounts == {4, 10}

CommitResponses ==
    {[status |-> "ok", link |-> "none", last |-> 0, body_len |-> 1],
     [status |-> "ok", link |-> "nolast", last |-> 0, body_len |-> 1],
     [status |-> "error", link |-> "none", last |-> 0, body_len |-> 2]}
    \cup {[status |-> "ok", link |-> "last", last |-> n, body_len |-> 1] :
            n \in CommitCounts}

fetch_commit_count(r) ==
    IF r.link = "none" THEN r.body_len
    ELSE IF r.link = "last" THEN r.last
    ELSE 1

-----------------------------------------------------------------------------
(* Top-N reduction *)

\* Variant: e goes before the elements of equal value (equal values reversed)
InsertDescUnstable(s, e) ==
    LET ahead == Cardinality({i \in 1..Len(s) : RLess(e.v, s[i].v)})
    IN  SubSeq(s, 1, ahead) \o <<e>> \o SubSeq(s, ahead + 1, Len(s))

\* e goes after every element whose value is >= its own: a stable descending sort
InsertDesc(s, e) ==
    LET ahead == Cardinality({i \in 1..Len(s) : ~RLess(s[i].v, e.v)})
    IN  SubSeq(s, 1, ahead) \o <<e>> \o SubSeq(s, ahead + 1, Len(s))

\* sorted(data.items(), key=lambda x: x[1], reverse=True)
RECURSIVE SortDesc(_, _)
SortDesc(done, rest) ==
    IF rest = <<>> THEN done
    ELSE SortDesc(InsertDesc(done, Head(rest)), Tail(rest))

Min(a, b) == IF a < b THEN a ELSE b

\* Variant: the remainder summed from one entry too far (items[TOP_N + 1:])
top_n_with_other_short(data) ==
    LET items == SortDesc(<<>>, data)
        top == SubSeq(items, 1, Min(TOP_N, Len(items)))
        other == RSum(Values(SubSeq(items, TOP_N + 2, Len(items))))
    IN  IF RLess(Zero, other)
        THEN Append(top, [k |-> "Other", v |-> other])
        ELSE top

top_n_with_other(data) ==
    LET items == SortDesc(<<>>, data)
        top == SubSeq(items, 1, Min(TOP_N, Len(items)))
        other == RSum(Values(SubSeq(items, TOP_N + 1, Len(items))))
    IN  IF RLess(Zero, other)
        THEN Append(top, [k |-> "Other", v |-> other])
        ELSE top

-----------------------------------------------------------------------------
(* Pie geometry *)

StartAngle == <<-90, 1>>
FullTurn == Num(360)
HalfTurn == Num(180)

\* pt(r, a) = (cx + r*cos(a), cy + r*sin(a))
Pt(cx, cy, r, a) == [cx |-> cx, cy |-> cy, r |-> r, a |-> RMod360(a)]

\* Variant: the palette cycled after TOP_N colours
ColorShort(i) == COLORS[(i % TOP_N) + 1]

Color(i) == COLORS[(i % Len(COLORS)) + 1]

\* Variant: the flag set from a half turn on (>=)
LargeAtHalf(delta) == IF RLess(delta, HalfTurn) THEN 0 ELSE 1

Large(delta) == IF RLess(HalfTurn, delta) THEN 1 ELSE 0

\* frac = value / total; delta = frac * 2 * math.pi
Frac(entry, total) == RDiv(entry.v, total)
Delta(entry, total) == RMul(Frac(entry, total), FullTurn)

\* `angle` once the first i entries are laid out: -pi/2, then angle = a2 each time
RECURSIVE AngleAfter(_, _, _)
AngleAfter(data, total, i) ==
    IF i = 0 THEN StartAngle
    ELSE RAdd(AngleAfter(data, total, i - 1), Delta(data[i], total))

\* one iteration of the loop of pie_paths: entry number i (from 0) at `angle`;
\* a1 and a2 are kept beside the tuple the code appends
Wedge(i, entry, total, angle, cx, cy, r_outer, r_inner) ==
    LET frac == Frac(entry, total)
        delta == Delta(entry, total)
        a1 == angle
        a2 == RAdd(angle, delta)
        large == Large(delta)
    IN  [d |-> [M |-> Pt(cx, cy, r_outer, a1),
                A1 |-> [r |-> r_outer, large |-> large, sweep |-> 1,
                        to |-> Pt(cx, cy, r_outer, a2)],
                L |-> Pt(cx, cy, r_inner, a2),
                A2 |-> [r |-> r_inner, large |-> large, sweep |-> 0,
                        to |-> Pt(cx, cy, r_inner, a1)]],
         color |-> Color(i),
         label |-> entry.k,
         percent |-> Round(RMul(frac, Num(100))),
         a1 |-> a1,
         a2 |-> a2]

pie_paths(data, cx, cy, r_outer, r_inner) ==
    LET total == RSum(Values(data))
    IN  [n \in 1..Len(data) |->
            Wedge(n - 1, data[n], total, AngleAfter(data, total, n - 1),
                  cx, cy, r_outer, r_inner)]

\* value / total raises ZeroDivisionError when the entries sum to zero
PieRaises(data) == data # <<>> /\ RSum(Values(data)) = Zero

\* legend_items[label] = color, over repo_pie + commit_pie
RECURSIVE Legend(_, _)
Legend(items, pies) ==
    IF pies = <<>> THEN items
    ELSE Legend(Put(items, Head(pies).label, Head(pies).color), Tail(pies))

-----------------------------------------------------------------------------
(* The run *)

Init ==
    /\ env \in Environments
    /\ hashOrder \in HashOrders
    /\ pc = "config"
    /\ exit_code = 0
    /\ TOKEN = <<>>
    /\ USERNAME = <<>>
    /\ network_used = FALSE
    /\ api_error = FALSE
    /\ repos = <<>>
    /\ cursor = 0
    /\ repo_data = <<>>
    /\ weighted = <<>>
    /\ idx = 0
    /\ commits = <<>>
    /\ repo_top = <<>>
    /\ commit_top = <<>>
    /\ repo_pie = <<>>
    /\ commit_pie = <<>>
    /\ legend_items = <<>>
    /\ file = <<>>

\* An exception nobody catches: traceback on stderr, exit status 1
Raise ==
    /\ pc' = "exited"
    /\ exit_code' = 1

\* os.environ[name] raises KeyError when the variable is unset.  The second
\* argument of os.environ.get is evaluated before the call, whatever GH_USERNAME is
ConfigRaises(e) ==
    \/ "GITHUB_TOKEN" \notin DOMAIN e
    \/ "GITHUB_REPOSITORY" \notin DOMAIN e

\* s.split("/")[0]: the characters before the first "/", all of s when it has none
RECURSIVE SplitFirst(_)
SplitFirst(s) ==
    IF s = <<>> \/ Head(s) = "/" THEN <<>>
    ELSE <<Head(s)>> \o SplitFirst(Tail(s))

\* os.environ.get("GH_USERNAME", os.environ["GITHUB_REPOSITORY"].split("/")[0])
ResolveUsername(e) ==
    LET default == SplitFirst(e.GITHUB_REPOSITORY)
    IN  IF "GH_USERNAME" \in DOMAIN e THEN e.GH_USERNAME ELSE default

\* Module level, lines 29-30
LoadConfig ==
    /\ pc = "config"
    /\ IF ConfigRaises(env)
       THEN /\ Raise
            /\ TOKEN' = IF "GITHUB_TOKEN" \in DOMAIN env
                        THEN env.GITHUB_TOKEN ELSE TOKEN
            /\ UNCHANGED USERNAME
       ELSE /\ TOKEN' = env.GITHUB_TOKEN
            /\ USERNAME' = ResolveUsername(env)
            /\ pc' = "fetch"
            /\ UNCHANGED exit_code
    /\ UNCHANGED <<env, hashOrder, network_used, api_error, repos, cursor,
                   repo_data, weighted, idx, commits, repo_top, commit_top,
                   repo_pie, commit_pie, legend_items, file>>

PagesServed == cursor

\* The pages the host may answer the query with: up to 100 nodes not served
\* before, hasNextPage, and an endCursor
Pages ==
    {[nodes |-> [i \in 1..Len(s) |-> Node(s[i])],
      hasNextPage |-> h,
      endCursor |-> PagesServed + 1] :
        s \in DistinctSeqs({r \in RemoteRepos :
                                \A i \in 1..Len(repos) : repos[i].name # r.name},
                           Min(PageSize, MaxRepos - Len(repos))),
        h \in {b \in BOOLEAN : b => PagesServed + 1 < MaxPages}}

\* One iteration of the loop of fetch_repositories, the request answered by a page
FetchPage ==
    /\ pc = "fetch"
    /\ \E page \in Pages :
        /\ repos' = repos \o page.nodes
        /\ IF ~page.hasNextPage
           THEN /\ pc' = "count"
                /\ cursor' = 0
           ELSE /\ cursor' = page.endCursor
                /\ pc' = "fetch"
    /\ network_used' = TRUE
    /\ UNCHANGED <<env, hashOrder, exit_code, TOKEN, USERNAME, api_error,
                   repo_data, weighted, idx, commits, repo_top, commit_top,
                   repo_pie, commit_pie, legend_items, file>>

\* Answers that are not a page: a non-success status whose body has no "data",
\* a GraphQL error payload whose "data" is null, a failure of the transport
QueryErrors == {"http_status", "graphql_errors", "transport"}

\* One iteration of the loop of fetch_repositories, the request failing:
\* r["data"]["user"]["repositories"] raises KeyError or TypeError, requests.post
\* raises on a transport failure
FetchPageError ==
    /\ pc = "fetch"
    /\ \E kind \in QueryErrors : Raise
    /\ network_used' = TRUE
    /\ api_error' = TRUE
    /\ UNCHANGED <<env, hashOrder, TOKEN, USERNAME, repos, cursor,
                   repo_data, weighted, idx, commits, repo_top, commit_top,
                   repo_pie, commit_pie, legend_items, file>>

\* main(): languages_by_repo_count(repos), the first argument of render_combined_svg
CountByRepo ==
    /\ pc = "count"
    /\ repo_data' = languages_by_repo_count(repos, hashOrder)
    /\ idx' = 1
    /\ pc' = "weigh"
    /\ UNCHANGED <<env, hashOrder, exit_code, TOKEN, USERNAME, network_used,
                   api_error, repos, cursor, weighted, commits, repo_top,
                   commit_top, repo_pie, commit_pie, legend_items, file>>

\* commit_weighted_languages, an iteration for a repository without languages
WeighSkip ==
    /\ pc = "weigh"
    /\ idx <= Len(repos)
    /\ LangSet(repos[idx]) = {}
    /\ idx' = idx + 1
    /\ commits' = Append(commits, 0)
    /\ UNCHANGED <<env, hashOrder, pc, exit_code, TOKEN, USERNAME,
                   network_used, api_error, repos, cursor, repo_data, weighted,
                   repo_top, commit_top, repo_pie, commit_pie, legend_items,
                   file>>

\* commit_weighted_languages, an iteration with its call of fetch_commit_count
WeighRepo ==
    /\ pc = "weigh"
    /\ idx <= Len(repos)
    /\ LangSet(repos[idx]) # {}
    /\ \E r \in CommitResponses :
        LET n == fetch_commit_count(r)
            langs == LangSet(repos[idx])
        IN  /\ commits' = Append(commits, n)
            /\ weighted' = AddWeights(weighted, RepoLangs(repos[idx], hashOrder),
                                      Weight(n, langs))
            /\ api_error' = (api_error \/ r.status = "error")
    /\ idx' = idx + 1
    /\ network_used' = TRUE
    /\ UNCHANGED <<env, hashOrder, pc, exit_code, TOKEN, USERNAME, repos,
                   cursor, repo_data, repo_top, commit_top, repo_pie,
                   commit_pie, legend_items, file>>

\* commit_weighted_languages, requests.get raising on a transport failure
WeighError ==
    /\ pc = "weigh"
    /\ idx <= Len(repos)
    /\ LangSet(repos[idx]) # {}
    /\ Raise
    /\ network_used' = TRUE
    /\ api_error' = TRUE
    /\ UNCHANGED <<env, hashOrder, TOKEN, USERNAME, repos, cursor, repo_data,
                   weighted, idx, commits, repo_top, commit_top, repo_pie,
                   commit_pie, legend_items, file>>

Fills(pie) == [i \in 1..Len(pie) |-> [d |-> pie[i].d, fill |-> pie[i].color]]

\* render_combined_svg(repo_data, commit_data), then the return of main()
Render ==
    /\ pc = "weigh"
    /\ idx > Len(repos)
    /\ LET rt == top_n_with_other(repo_data)
           ct == top_n_with_other(weighted)
       IN  /\ repo_top' = rt
           /\ commit_top' = ct
           /\ IF PieRaises(rt) \/ PieRaises(ct)
              THEN /\ Raise
                   /\ UNCHANGED <<repo_pie, commit_pie, legend_items, file>>
              ELSE LET rp == pie_paths(rt, 170, 160, 85, 52)
                       cp == pie_paths(ct, 430, 160, 85, 52)
                       lg == Legend(<<>>, rp \o cp)
                   IN  /\ repo_pie' = rp
                       /\ commit_pie' = cp
                       /\ legend_items' = lg
                       /\ file' = Append(file,
                                  [title |-> USERNAME,
                                   repo_paths |-> Fills(rp),
                                   commit_paths |-> Fills(cp),
                                   legend |-> lg])
                       /\ pc' = "exited"
                       /\ exit_code' = 0
    /\ UNCHANGED <<env, hashOrder, TOKEN, USERNAME, network_used, api_error,
                   repos, cursor, repo_data, weighted, idx, commits>>

Next ==
    \/ LoadConfig
    \/ FetchPage
    \/ FetchPageError
    \/ CountByRepo
    \/ WeighSkip
    \/ WeighRepo
    \/ WeighError
    \/ Render

Spec == Init /\ [][Next]_vars

-----------------------------------------------------------------------------
(* Properties *)

\* commit_weighted_languages has gone through every repository
WeighDone == idx > Len(repos)

\* render_combined_svg has been entered: both reductions are computed
Reduced == pc = "exited" /\ idx > Len(repos)

\* the run has ended with the image written
Rendered == pc = "exited" /\ file # <<>>

Labels(pie) == {pie[i].label : i \in 1..Len(pie)}

RNeg(x) == <<-x[1], x[2]>>

\* the sum of data[j].v over the indices j in S
RECURSIVE SumAt(_, _)
SumAt(data, S) ==
    IF S = {} THEN Zero
    ELSE LET j == CHOOSE x \in S : TRUE
         IN  RAdd(data[j].v, SumAt(data, S \ {j}))

IsTopN(data, out) ==
    LET n == Min(TOP_N, Len(data))
        kept == {out[i].k : i \in 1..Min(n, Len(out))}
        restAt == {j \in 1..Len(data) : data[j].k \notin kept}
        rest == SumAt(data, restAt)
    IN  /\ Len(out) >= n
        /\ \A i \in 1..n : \E j \in 1..Len(data) : data[j] = out[i]
        /\ \A i, j \in 1..n :
              i < j =>
                /\ out[i].k # out[j].k
                /\ ~RLess(out[i].v, out[j].v)
                /\ out[i].v = out[j].v =>
                      IndexOf(data, out[i].k) < IndexOf(data, out[j].k)
        /\ \A i \in 1..n, j \in restAt :
              \/ RLess(data[j].v, out[i].v)
              \/ data[j].v = out[i].v /\ IndexOf(data, out[i].k) < j
        /\ IF RLess(Zero, rest)
           THEN Len(out) = n + 1 /\ out[n + 1] = [k |-> "Other", v |-> rest]
           ELSE Len(out) = n
        /\ \A i \in 1..Len(out) :
              out[i].k = "Other" =>
                i = Len(out) /\ out[i].v # Zero /\ Len(data) > TOP_N

\* C2: top_n_with_other returns the TOP_N largest entries sorted descending by
\* value, entries of equal value in the insertion order of the input, followed
\* by one "Other" entry holding the sum of the remaining entries if and only if
\* that sum is greater than zero; "Other" is last, never 0, and absent when
\* the input has at most TOP_N entries
C2_TopNThenOther ==
    Reduced => IsTopN(repo_data, repo_top) /\ IsTopN(weighted, commit_top)

\* a tie runs across the cut, and a mapping of at most TOP_N entries is reduced too
C2_Witness ==
    /\ Reduced
    /\ Len(repo_data) > TOP_N
    /\ repo_top[Len(repo_top)].k = "Other"
    /\ \E j \in 1..Len(repo_data) :
          /\ repo_data[j].k \notin {repo_top[i].k : i \in 1..TOP_N}
          /\ repo_data[j].v = repo_top[TOP_N].v
    /\ \E i \in 1..(Len(repo_data) - 1) :
          RLess(repo_data[i].v, repo_data[i + 1].v)

\* The repository of the host that a fetched node names
Remote(node) == CHOOSE r \in RemoteRepos : r.name = node.name

\* the byte size the host attributes to lang in repository r (0 when absent)
BytesOf(r, lang) ==
    LET at == {i \in 1..Len(r.edges) : r.edges[i].name = lang}
    IN  SumAt([i \in 1..Len(r.edges) |-> [v |-> Num(r.edges[i].size)]], at)

TotalBytes(r) ==
    SumAt([i \in 1..Len(r.edges) |-> [v |-> Num(r.edges[i].size)]],
          1..Len(r.edges))

\* sum over the repositories of commits(repo) * bytes(lang, repo) / total_bytes(repo)
ByBytes(lang) ==
    LET term(i) ==
            LET r == Remote(repos[i])
            IN  IF TotalBytes(r) = Zero THEN Zero
                ELSE RMul(Num(commits[i]), RDiv(BytesOf(r, lang), TotalBytes(r)))
    IN  SumAt([i \in 1..Len(repos) |-> [v |-> term(i)]], 1..Len(repos))

\* sum over the repositories listing lang of commits(repo) / language_count(repo)
EvenSplit(lang) ==
    LET has == {i \in 1..Len(repos) : lang \in Range(repos[i].languages)}
        term(i) ==
            IF i \in has
            THEN Rat(commits[i], Cardinality(Range(repos[i].languages)))
            ELSE Zero
    IN  SumAt([i \in 1..Len(repos) |-> [v |-> term(i)]], has)

\* the repositories A = {Go: 100, Py: 50} with 10 commits, B = {Go: 50} with 4
ExampleAB ==
    /\ WeighDone
    /\ [i \in 1..Len(repos) |-> repos[i].name] = <<"A", "B">>
    /\ commits = <<10, 4>>

\* C3, as claimed: each language's commit-weighted value is the sum over the
\* repositories of commits(repo) * bytes(lang, repo) / total_bytes(repo); for A
\* and B above, Go = 10*(100/150) + 4*(50/50) = 32/3 and Py = 10*(50/150) = 10/3
C3_ByteShare ==
    WeighDone =>
        /\ \A lang \in Langs : Get(weighted, lang, Zero) = ByBytes(lang)
        /\ ExampleAB =>
              /\ Get(weighted, "Go", Zero) = Rat(32, 3)
              /\ Get(weighted, "Py", Zero) = Rat(10, 3)

\* C3, amended: each language's commit-weighted value is the sum, over the
\* repositories that list it, of commits(repo) / language_count(repo);
\* repositories without languages contribute nothing and cost no lookup; for A
\* and B above, Go = 10/2 + 4/1 = 9 and Py = 10/2 = 5
C3_EvenSplit ==
    WeighDone =>
        /\ Keys(weighted) =
              {l \in Langs : \E i \in 1..Len(repos) : l \in Range(repos[i].languages)}
        /\ \A lang \in Langs : Get(weighted, lang, Zero) = EvenSplit(lang)
        /\ \A i \in 1..Len(repos) : repos[i].languages = <<>> => commits[i] = 0
        /\ ExampleAB =>
              /\ Get(weighted, "Go", Zero) = Num(9)
              /\ Get(weighted, "Py", Zero) = Num(5)

C3_Witness == ExampleAB /\ Get(weighted, "Go", Zero) = Num(9)

\* C4: languages_by_repo_count maps each language to the number of distinct
\* repositories that list it: a name listed twice in one repository counts
\* once, a repository without languages adds nothing, and a language no
\* repository lists is not a key
C4_RepoCount ==
    idx >= 1 =>
        /\ Keys(repo_data) =
              {l \in Langs \ EXCLUDED_LANGUAGES :
                  \E i \in 1..Len(repos) : \E j \in 1..Len(repos[i].languages) :
                      repos[i].languages[j] = l}
        /\ Len(repo_data) = Cardinality(Keys(repo_data))
        /\ \A i \in 1..Len(repo_data) :
              repo_data[i].v =
                  Num(Cardinality({n \in 1..Len(repos) :
                          \E j \in 1..Len(repos[n].languages) :
                              repos[n].languages[j] = repo_data[i].k}))

\* a repository listing a name twice, and a repository without languages
C4_Witness ==
    /\ idx >= 1
    /\ \E i \in 1..Len(repos) : repos[i].languages = <<"Rs", "Rs">>
    /\ \E i \in 1..Len(repos) : repos[i].languages = <<>>
    /\ Get(repo_data, "Rs", Zero) = Num(1)

OtherColor == "#eab308"

C6_NoDegenerateArc ==
    Rendered =>
        \A pie \in {repo_pie, commit_pie} :
            \A i \in 1..Len(pie) :
                /\ Len(pie) = 1 => pie[i].d.A1.large = 1
                /\ pie[i].d.M # pie[i].d.A1.to
                /\ pie[i].d.L # pie[i].d.A2.to

\* C7, as claimed: an upstream error on any request ends the run with exit code
\* 1 and no file written; the file is written only when every request succeeded
C7_ErrorsAreFatal ==
    pc = "exited" =>
        /\ api_error => exit_code = 1 /\ file = <<>>
        /\ file # <<>> => ~api_error

\* configuration loading has failed: the process ended before any request
ConfigFailed ==
    pc = "exited" /\ exit_code # 0 /\ ~network_used /\ file = <<>>

\* C8, as claimed: configuration loading fails exactly when the token is unset,
\* or when neither GH_USERNAME nor GITHUB_REPOSITORY is set; with the token set,
\* GH_USERNAME is the account whether or not GITHUB_REPOSITORY is set, and
\* otherwise the owner part of GITHUB_REPOSITORY is
C8_ConfigFallback ==
    pc # "config" =>
        LET token == "GITHUB_TOKEN" \in DOMAIN env
            user == "GH_USERNAME" \in DOMAIN env
            repo == "GITHUB_REPOSITORY" \in DOMAIN env
        IN  /\ ConfigFailed <=> (~token \/ (~user /\ ~repo))
            /\ token /\ user => USERNAME = env.GH_USERNAME
            /\ token /\ ~user /\ repo => USERNAME = <<"b", "o">>

\* C9: the large-arc flag of a wedge's outer arc is 1 exactly when the wedge
\* spans more than 180 degrees (more than half of the total), the outer arc
\* sweeps 1 and the inner arc 0, the first wedge starts at -90 degrees, each
\* wedge starts where the previous one ended and spans value/total * 360
C9_WedgeFlags ==
    Rendered =>
        \A p \in {<<repo_top, repo_pie>>, <<commit_top, commit_pie>>} :
            LET top == p[1]
                pie == p[2]
                total == SumAt(top, 1..Len(top))
            IN  /\ Len(pie) = Len(top)
                /\ \A i \in 1..Len(pie) :
                      LET span == RAdd(pie[i].a2, RNeg(pie[i].a1))
                          half == RMul(Num(2), top[i].v) = total
                          more == RLess(total, RMul(Num(2), top[i].v))
                      IN  /\ RMul(span, total) = RMul(Num(360), top[i].v)
                          /\ pie[i].d.A1.large = (IF more THEN 1 ELSE 0)
                          /\ half => pie[i].d.A1.large = 0
                          /\ pie[i].d.A1.sweep = 1
                          /\ pie[i].d.A2.sweep = 0
                          /\ pie[i].a1 = (IF i = 1 THEN <<-90, 1>> ELSE pie[i - 1].a2)
                          /\ pie[i].d.M.a = RMod360(pie[i].a1)
                          /\ pie[i].d.A1.to.a = RMod360(pie[i].a2)

\* a wedge of exactly 180 degrees in one pie, a wedge of more in the other
C9_Witness ==
    /\ Rendered
    /\ \E i \in 1..Len(repo_pie) :
          /\ RAdd(repo_pie[i].a2, RNeg(repo_pie[i].a1)) = HalfTurn
          /\ repo_pie[i].d.A1.large = 0
    /\ \E i \in 1..Len(commit_pie) :
          /\ RLess(HalfTurn, RAdd(commit_pie[i].a2, RNeg(commit_pie[i].a1)))
          /\ RLess(RAdd(commit_pie[i].a2, RNeg(commit_pie[i].a1)), FullTurn)
          /\ commit_pie[i].d.A1.large = 1

\* C10, as claimed: the legend has one row per label of either pie, in the colour
\* of every wedge that carries the label, in both pies
C10_LegendMatchesWedges ==
    Rendered =>
        /\ Keys(legend_items) = Labels(repo_pie) \cup Labels(commit_pie)
        /\ Len(legend_items) = Cardinality(Keys(legend_items))
        /\ \A pie \in {repo_pie, commit_pie} :
              \A i \in 1..Len(pie) :
                  Get(legend_items, pie[i].label, "") = pie[i].color

====
